---- MODULE Spec2Model ----
(***************************************************************************)
(* Feature pipeline of arkin (arkin/src/pipeline.rs): construction of the  *)
(* feature graph (Pipeline::from_config), the parallel Kahn evaluation     *)
(* (Pipeline::calculate) and the time-indexed feature store it reads and   *)
(* writes (PipelineState).                                                 *)
(*                                                                         *)
(* Node indices are 1-based here (petgraph's NodeIndex is 0-based); the    *)
(* termination sentinel None of the work queue is the value 0.             *)
(***************************************************************************)
EXTENDS Integers, Sequences, FiniteSets, TLC

\* ------------------------------------------------------------------ bounds
MaxNodes == 3      \* largest number of configured features
MaxPool  == 3      \* largest number of threads of the rayon pool
MaxCalls == 2      \* calculate() invocations per behaviour
MaxInserts == 3    \* add_feature calls on the store taken on its own
MaxConcNodes == 2  \* largest number of features of a pipeline run for two instruments at once
MaxUpdates == 3    \* market updates handled by a MarketState
MaxConnections == 2  \* largest connections limit of a WebSocketManager
MaxAttempts == 2   \* permits a WebSocketManager acquires per behaviour
MaxMessages == 2   \* inbound messages the server sends over all connections

\* --------------------------------------------------------------- constants
MaxTie == 1000000  \* tie-breaker of CompositeKey::new_max (stands for the type's maximum)
EventTime == 3     \* the triggering event_time of the calculate() calls
WindowLen == 2     \* duration of the Window queries of the catalog
NumPeriods == 2    \* count of the Periods queries of the catalog

None == 0
Instr == "I1"
Instruments == {"I1", "I2"}

\* crate::constants::BASE_IDS: the frozen base identifier set
BASE_IDS == {"bid_price", "ask_price", "bid_qty", "ask_qty", "trade_price", "trade_qty", "mid_price"}

\* ------------------------------------------------------------ small helpers
Min(a, b) == IF a < b THEN a ELSE b

Range(s) == {s[i] : i \in 1..Len(s)}

RECURSIVE SumSeq(_)
SumSeq(s) == IF s = <<>> THEN 0 ELSE s[1] + SumSeq(Tail(s))

Reverse(s) == [i \in 1..Len(s) |-> s[Len(s) + 1 - i]]

\* the subsequence of s at the positions in P, in order
RECURSIVE Pick(_, _, _)
Pick(s, P, i) ==
  IF i > Len(s) THEN <<>>
  ELSE (IF i \in P THEN <<s[i]>> ELSE <<>>) \o Pick(s, P, i + 1)

\* ------------------------------------------------------------ CompositeKey
\* (timestamp, tie-breaker), ordered lexicographically
CompositeKey_new(t) == [ts |-> t, tie |-> 0]
CompositeKey_new_max(t) == [ts |-> t, tie |-> MaxTie]
CompositeKey_increment(k) == [ts |-> k.ts, tie |-> k.tie + 1]

KeyLt(k1, k2) == k1.ts < k2.ts \/ (k1.ts = k2.ts /\ k1.tie < k2.tie)
KeyLe(k1, k2) == k1 = k2 \/ KeyLt(k1, k2)

\* ------------------------------------------------------------ PipelineState
\* A bucket is the BTreeMap<CompositeKey, f64> of one (instrument, feature
\* id): a sequence of entries [key, val] in ascending key order.  A bucket
\* that is missing from the DashMap is the empty sequence.
BucketKeys(b) == {b[i].key : i \in 1..Len(b)}

\* (variant: an if in place of the while, a single increment)
FreeKey_ProbeOnce(b, k) == IF k \in BucketKeys(b) THEN CompositeKey_increment(k) ELSE k

\* the while loop of insert: the first key from k on that the bucket lacks
RECURSIVE FreeKey(_, _)
FreeKey(b, k) == IF k \in BucketKeys(b) THEN FreeKey(b, CompositeKey_increment(k)) ELSE k

\* BTreeMap::insert of a key the map does not hold
TreeInsert(b, k, v) ==
  LET lo == {i \in 1..Len(b) : KeyLt(b[i].key, k)}
      hi == {i \in 1..Len(b) : KeyLt(k, b[i].key)}
  IN  Pick(b, lo, 1) \o <<[key |-> k, val |-> v]>> \o Pick(b, hi, 1)

\* (variant: the key of the timestamp is used without looking at the bucket)
InsertKey_NoProbe(st, event) == CompositeKey_new(event.event_time)

\* the key the while loop of insert ends with for this event
InsertKey(st, event) ==
  FreeKey(st[<<event.instrument, event.id>>], CompositeKey_new(event.event_time))

\* (variant: the event is dropped, the store stays as it is)
insert_Dropped(st, event) == st

insert(st, event) ==
  LET key == <<event.instrument, event.id>>
      composit_key == InsertKey(st, event)
  IN  [st EXCEPT ![key] = TreeInsert(st[key], composit_key, event.value)]

Vals(b) == [i \in 1..Len(b) |-> b[i].val]

\* (variant: the bound is the plain key of from, not its max-tie key)
get_latest_PlainKey(st, instrument, feature_id, from) ==
  LET from_key == CompositeKey_new(from)
      tree == st[<<instrument, feature_id>>]
      r == SelectSeq(tree, LAMBDA e : KeyLe(e.key, from_key))
  IN  IF r = <<>> THEN <<>> ELSE <<r[Len(r)].val>>

get_latest(st, instrument, feature_id, from) ==
  LET from_key == CompositeKey_new_max(from)
      tree == st[<<instrument, feature_id>>]
      r == SelectSeq(tree, LAMBDA e : KeyLe(e.key, from_key))
  IN  IF r = <<>> THEN <<>> ELSE <<r[Len(r)].val>>

get_range(st, instrument, feature_id, from, window) ==
  LET from_key == CompositeKey_new(from)
      end_key == CompositeKey_new(from - window)
      tree == st[<<instrument, feature_id>>]
  IN  Vals(SelectSeq(tree, LAMBDA e : KeyLe(end_key, e.key) /\ KeyLt(e.key, from_key)))

\* (variant: the final reverse is left out)
get_periods_NoReverse(st, instrument, feature_id, from, periods) ==
  LET from_key == CompositeKey_new_max(from)
      tree == st[<<instrument, feature_id>>]
      r == SelectSeq(tree, LAMBDA e : KeyLt(e.key, from_key))
      m == Min(periods, Len(r))
  IN  Reverse(Vals(SubSeq(r, Len(r) - m + 1, Len(r))))

get_periods(st, instrument, feature_id, from, periods) ==
  LET from_key == CompositeKey_new_max(from)
      tree == st[<<instrument, feature_id>>]
      r == SelectSeq(tree, LAMBDA e : KeyLt(e.key, from_key))
      m == Min(periods, Len(r))
  IN  Vals(SubSeq(r, Len(r) - m + 1, Len(r)))

\* one element of the par_iter of query: the values of one feature id
query(st, instrument, feature_id, from, data_type) ==
  CASE data_type.type = "Latest" -> get_latest(st, instrument, feature_id, from)
    [] data_type.type = "Window" -> get_range(st, instrument, feature_id, from, data_type.window)
    [] data_type.type = "Period" -> get_periods(st, instrument, feature_id, from, data_type.periods)

\* ----------------------------------------------------------------- features
\* The Feature contract: id(), sources(), data_type(), calculate(data).
Latest == [type |-> "Latest"]
Window == [type |-> "Window", window |-> WindowLen]
Period == [type |-> "Period", periods |-> NumPeriods]

\* the feature configurations a catalog is drawn from, in declaration order
Menu == <<
  [id |-> "a", kind |-> "volume", sources |-> <<"mid_price">>,            data_type |-> Period],
  [id |-> "a", kind |-> "volume", sources |-> <<"mid_price">>,            data_type |-> Latest],
  [id |-> "a", kind |-> "spread", sources |-> <<"mid_price", "bid_qty">>, data_type |-> Latest],
  [id |-> "b", kind |-> "volume", sources |-> <<"a">>,                    data_type |-> Latest],
  [id |-> "b", kind |-> "volume", sources |-> <<"a">>,                    data_type |-> Window],
  [id |-> "b", kind |-> "volume", sources |-> <<"a">>,                    data_type |-> Period],
  [id |-> "c", kind |-> "spread", sources |-> <<"a", "b">>,               data_type |-> Latest],
  [id |-> "c", kind |-> "spread", sources |-> <<"a", "a">>,               data_type |-> Latest],
  [id |-> "a", kind |-> "volume", sources |-> <<"b">>,                    data_type |-> Latest],
  [id |-> "s", kind |-> "volume", sources |-> <<"s">>,                    data_type |-> Latest],
  [id |-> "u", kind |-> "volume", sources |-> <<"zz">>,                   data_type |-> Latest] >>

\* every selection of at most MaxNodes menu entries, declared in menu order
\* or in the reverse of it
Catalogs ==
  LET sel == {Pick(Menu, S, 1) : S \in {T \in SUBSET (1..Len(Menu)) : Cardinality(T) <= MaxNodes}}
  IN  sel \cup {Reverse(c) : c \in sel}

FeatureIds ==
  BASE_IDS \cup {Menu[i].id : i \in 1..Len(Menu)}
           \cup UNION {Range(Menu[i].sources) : i \in 1..Len(Menu)}

\* the response map FeatureId -> values that read_features collects from the
\* per-source reads: for an id named twice the later read is the one kept
ResponseOf(feature, reads, id) ==
  LET ps == {p \in 1..Len(feature.sources) : feature.sources[p] = id}
  IN  reads[CHOOSE p \in ps : \A q \in ps : q <= p]

\* Feature::calculate: Ok(output value) or Err
Feature_calculate(feature, reads) ==
  IF feature.kind = "volume"
  THEN [ok |-> TRUE, value |-> SumSeq(ResponseOf(feature, reads, feature.sources[1]))]
  ELSE LET front == ResponseOf(feature, reads, feature.sources[1])
           back  == ResponseOf(feature, reads, feature.sources[2])
       IN  IF front = <<>> \/ back = <<>>
           THEN [ok |-> FALSE, value |-> 0]
           ELSE [ok |-> TRUE, value |-> front[1] - back[1]]

\* (variant: the event is made for one fixed instrument, whoever the call is for)
FeatureEvent_new_OneInstrument(id, instrument, event_time, value) ==
  [id |-> id, instrument |-> Instr, event_time |-> event_time, value |-> value]

FeatureEvent_new(id, instrument, event_time, value) ==
  [id |-> id, instrument |-> instrument, event_time |-> event_time, value |-> value]

\* ------------------------------------------------------ Pipeline::from_config
\* graph.node_indices().find(|i| graph[*i].id() == source): the first node
\* carrying the id, 0 when there is none
FindNode(cat, source) ==
  LET m == {i \in 1..Len(cat) : cat[i].id = source}
  IN  IF m = {} THEN 0 ELSE CHOOSE i \in m : \A j \in m : i <= j

\* (variant: a source that find does not resolve is skipped instead of unwrapped)
RECURSIVE EdgesOfTarget_SkipUnresolved(_, _, _)
EdgesOfTarget_SkipUnresolved(cat, target, p) ==
  IF p > Len(cat[target].sources) THEN <<>>
  ELSE (IF cat[target].sources[p] \in BASE_IDS \/ FindNode(cat, cat[target].sources[p]) = 0
        THEN <<>>
        ELSE << <<FindNode(cat, cat[target].sources[p]), target>> >>)
       \o EdgesOfTarget_SkipUnresolved(cat, target, p + 1)

\* the edges one target node contributes, its sources taken from position p on
RECURSIVE EdgesOfTarget(_, _, _)
EdgesOfTarget(cat, target, p) ==
  IF p > Len(cat[target].sources) THEN <<>>
  ELSE (IF cat[target].sources[p] \in BASE_IDS THEN <<>>
        ELSE << <<FindNode(cat, cat[target].sources[p]), target>> >>)
       \o EdgesOfTarget(cat, target, p + 1)

\* edges_to_add: (source_node, target_node) pairs in the order they are pushed
RECURSIVE EdgesToAdd(_, _)
EdgesToAdd(cat, target) ==
  IF target > Len(cat) THEN <<>>
  ELSE EdgesOfTarget(cat, target, 1) \o EdgesToAdd(cat, target + 1)

\* the unwrap() of the find fails: a non-base source that no node carries
UnwrapPanics(cat) == \E i \in 1..Len(EdgesToAdd(cat, 1)) : EdgesToAdd(cat, 1)[i][1] = 0

Perms(n) == {f \in [1..n -> 1..n] : \A i, j \in 1..n : f[i] = f[j] => i = j}

PosIn(o, x) == CHOOSE i \in 1..Len(o) : o[i] = x

\* graph.neighbors_directed(node, Outgoing): one neighbor per outgoing edge
\* (a parallel edge repeats the neighbor), the most recently added edge first
\* (variant: a neighbor reached by parallel edges is visited once)
Neighbors_Distinct(edges, node) ==
  LET out == Pick(edges, {e \in 1..Len(edges) :
                            /\ edges[e][1] = node
                            /\ \A f \in 1..Len(edges) : edges[f] = edges[e] => f <= e}, 1)
  IN  [i \in 1..Len(out) |-> out[Len(out) + 1 - i][2]]

Neighbors(edges, node) ==
  LET out == Pick(edges, {e \in 1..Len(edges) : edges[e][1] = node}, 1)
  IN  [i \in 1..Len(out) |-> out[Len(out) + 1 - i][2]]

\* (variant: self loops are not looked at)
HasCycle_NoSelfLoops(n, edges) ==
  ~ \E o \in Perms(n) : \A e \in 1..Len(edges) :
       edges[e][1] # edges[e][2] => PosIn(o, edges[e][1]) < PosIn(o, edges[e][2])

\* a cycle (a self loop included): no order of the n nodes has every edge forward
HasCycle(n, edges) ==
  ~ \E o \in Perms(n) : \A e \in 1..Len(edges) : PosIn(o, edges[e][1]) < PosIn(o, edges[e][2])

\* the depth-first search of toposort from one start node: d is the record of
\* the stack, the discovered set, the finished set and the finish stack
RECURSIVE DfsRun(_, _)
DfsRun(edges, d) ==
  IF d.stack = <<>> THEN d
  ELSE LET nx == d.stack[Len(d.stack)]
       IN  IF nx \notin d.discovered
           THEN LET disc == d.discovered \cup {nx}
                    succs == SelectSeq(Neighbors(edges, nx), LAMBDA v : v \notin disc)
                IN  DfsRun(edges, [d EXCEPT !.discovered = disc, !.stack = @ \o succs])
           ELSE DfsRun(edges, [d EXCEPT !.stack = SubSeq(@, 1, Len(@) - 1),
                                        !.finished = @ \cup {nx},
                                        !.finish_stack = IF nx \in d.finished THEN @
                                                         ELSE Append(@, nx)])

\* the loop over the node identifiers, last node first
RECURSIVE DfsAll(_, _, _)
DfsAll(edges, i, d) ==
  IF i = 0 THEN d
  ELSE DfsAll(edges, i - 1,
              IF i \in d.discovered THEN d ELSE DfsRun(edges, [d EXCEPT !.stack = <<i>>]))

\* petgraph::algo::toposort: <<>> stands for Err(Cycle) when the graph has
\* nodes and a cycle; otherwise the reversed finish order of the search
toposort(n, edges) ==
  IF HasCycle(n, edges) THEN [ok |-> FALSE, order |-> <<>>]
  ELSE [ok |-> TRUE,
        order |-> Reverse(DfsAll(edges, n, [stack |-> <<>>, discovered |-> {}, finished |-> {},
                                            finish_stack |-> <<>>]).finish_stack)]

\* ------------------------------------------------------------------- state
VARIABLES
  catalog,          \* config.features, once from_config has been called
  poolSize,         \* threads of the pool ThreadPoolBuilder::new().build() makes
  pc,               \* where the caller is: start, built, dispatch, join, returned, panic_*
  graph,            \* the edge list of Pipeline.graph, in insertion order
  order,            \* Pipeline.order
  store,            \* State: bucket per (instrument, feature id)
  in_degrees,       \* per-invocation counter array
  queue,            \* the flume channel: node indices and None
  tasks,            \* the closures spawned into the scope, in spawn order
  pipeline_result,  \* the batch under its mutex
  returned,         \* the sets of events the finished invocations returned
  store0,           \* the store as it was when the running invocation began
  history,          \* per bucket: the entries add_feature inserted, in insertion order
  last,             \* the store query or SMA calculation made since the latest insertion
  invs,             \* per instrument: the locals of a calculate() running beside another
  ws,               \* WebSocketManager: semaphore, handlers, connections, channel
  market            \* MarketState: quotes, trades, agg_trades

vars == <<catalog, poolSize, pc, graph, order, store, in_degrees, queue, tasks,
          pipeline_result, returned, store0, history, last, invs, ws, market>>

Nodes == 1..Len(catalog)

\* the ticks the ingestion wrote before the first calculate()
InitStore ==
  [k \in {Instr} \X FeatureIds |->
     IF k[2] = "mid_price"
     THEN <<[key |-> CompositeKey_new(1), val |-> 5], [key |-> CompositeKey_new(2), val |-> 7]>>
     ELSE <<>>]

\* no query and no calculation has been observed yet
NoOperation ==
  [op |-> "none", id |-> "", as_of |-> 0, data_type |-> Latest, result |-> <<>>,
   feature_id |-> "", sma |-> [ok |-> FALSE, outputs |-> <<>>]]

Init ==
  /\ catalog = <<>>
  /\ poolSize \in 1..MaxPool
  /\ pc = "start"
  /\ graph = <<>>
  /\ order = <<>>
  /\ store = InitStore
  /\ in_degrees = <<>>
  /\ queue = <<>>
  /\ tasks = <<>>
  /\ pipeline_result = <<>>
  /\ returned = <<>>
  /\ store0 = InitStore
  /\ history = InitStore
  /\ last = NoOperation
  /\ invs = <<>>
  /\ ws = <<>>
  /\ market = <<>>

\* Pipeline::from_config(state, config): config.features is drawn from Catalogs
from_config ==
  /\ pc = "start"
  /\ \E features \in Catalogs :
       /\ catalog' = features
       /\ IF UnwrapPanics(features)
          THEN pc' = "panic_source" /\ UNCHANGED <<graph, order>>
          ELSE IF ~ toposort(Len(features), EdgesToAdd(features, 1)).ok
          THEN pc' = "panic_cycle" /\ UNCHANGED <<graph, order>>
          ELSE /\ graph' = EdgesToAdd(features, 1)
               /\ order' = toposort(Len(features), EdgesToAdd(features, 1)).order
               /\ pc' = "built"
  /\ UNCHANGED <<poolSize, store, in_degrees, queue, tasks, pipeline_result,
                 returned, store0>>
  /\ UNCHANGED <<history, last, invs, ws, market>>

\* -------------------------------------------------------- Pipeline::calculate
\* Step 1: the in-degree of every node, one increment per edge
\* (variant: the count is of distinct source nodes, not of edges)
InDegrees_DistinctSources(n, edges) ==
  [v \in 1..n |-> Cardinality({edges[e][1] : e \in {x \in 1..Len(edges) : edges[x][2] = v}})]

\* Step 1: one increment per edge, at the index of its target
InDegrees(n, edges) ==
  [v \in 1..n |-> Cardinality({e \in 1..Len(edges) : edges[e][2] = v})]

\* (variant: the test compares with >= instead of ==)
SeedReady_NotNegative(deg, node) == deg[node] >= 0

\* the test of Step 2 that lets a node into the initial queue
SeedReady(deg, node) == deg[node] = 0

\* Step 2: the zero in-degree nodes, sent in the persisted order
RECURSIVE SeedQueue(_, _, _)
SeedQueue(deg, ord, i) ==
  IF i > Len(ord) THEN <<>>
  ELSE (IF SeedReady(deg, ord[i]) THEN <<ord[i]>> ELSE <<>>) \o SeedQueue(deg, ord, i + 1)

\* (variant: the neighbor is taken as ready one decrement early)
NowReady_OneLeft(deg, neighbor) == deg[neighbor] <= 1

\* the test that lets a neighbor into the queue after its decrement
NowReady(deg, neighbor) == deg[neighbor] = 0

\* (variant: any() in place of all())
AllZero_Any(deg) == \E v \in DOMAIN deg : deg[v] = 0

\* in_degrees.lock().iter().all(|&x| x == 0)
AllZero(deg) == \A v \in DOMAIN deg : deg[v] = 0

calculate_begin ==
  /\ pc \in {"built", "returned"}
  /\ Len(returned) < MaxCalls
  /\ in_degrees' = InDegrees(Len(catalog), graph)
  /\ queue' = SeedQueue(InDegrees(Len(catalog), graph), order, 1)
  /\ pipeline_result' = <<>>
  /\ tasks' = <<>>
  /\ store0' = store
  /\ pc' = "dispatch"
  /\ UNCHANGED <<catalog, poolSize, graph, order, store, returned>>
  /\ UNCHANGED <<history, last, invs, ws, market>>

NewTask(node) ==
  [node |-> node, pc |-> "spawned",
   unread |-> 1..Len(catalog[node].sources),
   reads |-> [p \in 1..Len(catalog[node].sources) |-> <<>>],
   res |-> [ok |-> FALSE, value |-> 0],
   nb |-> 1]

\* one iteration of the while let loop: recv, then spawn or leave the loop
dispatch_recv ==
  /\ pc = "dispatch"
  /\ queue # <<>>
  /\ queue' = Tail(queue)
  /\ IF Head(queue) = None
     THEN pc' = "join" /\ UNCHANGED tasks
     ELSE pc' = pc /\ tasks' = Append(tasks, NewTask(Head(queue)))
  /\ UNCHANGED <<catalog, poolSize, graph, order, store, in_degrees, pipeline_result,
                 returned, store0>>
  /\ UNCHANGED <<history, last, invs, ws, market>>

\* The closure of pool.scope runs on a thread of the pool and keeps it while
\* it loops on recv; once it has left the loop that thread runs spawned jobs too.
Running == Cardinality({i \in 1..Len(tasks) : tasks[i].pc \notin {"spawned", "done"}})
FreeThreads == (IF pc = "dispatch" THEN poolSize - 1 ELSE poolSize) - Running

\* (variant: the Err arm leaves the closure)
AfterCalculate_ErrReturns(res) == IF res.ok THEN "save" ELSE "done"

\* the match on the result of feature.calculate: Ok goes on to save the
\* event, Err only logs; both reach the neighbor loop
AfterCalculate(res) == IF res.ok THEN "save" ELSE "neighbors"

\* state.read_features: the bucket of one source is read.  The first read is
\* the step at which a thread of the pool takes the spawned job; with the last
\* read the closure goes on to feature.calculate(data), which is pure, and to
\* the match on its result.
task_read(i, p) ==
  /\ pc \in {"dispatch", "join"}
  /\ \/ tasks[i].pc = "spawned" /\ FreeThreads > 0
     \/ tasks[i].pc = "read"
  /\ p \in tasks[i].unread
  /\ LET feature == catalog[tasks[i].node]
         data == query(store, Instr, feature.sources[p], EventTime, feature.data_type)
         reads == [tasks[i].reads EXCEPT ![p] = data]
         res == Feature_calculate(feature, reads)
     IN  tasks' = IF tasks[i].unread = {p}
                  THEN [tasks EXCEPT ![i].reads = reads, ![i].unread = {}, ![i].res = res,
                                     ![i].pc = AfterCalculate(res)]
                  ELSE [tasks EXCEPT ![i].reads = reads, ![i].unread = @ \ {p},
                                     ![i].pc = "read"]
  /\ UNCHANGED <<catalog, poolSize, pc, graph, order, store, in_degrees, queue,
                 pipeline_result, returned, store0>>
  /\ UNCHANGED <<history, last, invs, ws, market>>

TaskEvent(i) ==
  FeatureEvent_new(catalog[tasks[i].node].id, Instr, EventTime, tasks[i].res.value)

\* state.add_feature(event.clone())
task_add_feature(i) ==
  /\ tasks[i].pc = "save"
  /\ store' = insert(store, TaskEvent(i))
  /\ tasks' = [tasks EXCEPT ![i].pc = "push"]
  /\ UNCHANGED <<catalog, poolSize, pc, graph, order, in_degrees, queue,
                 pipeline_result, returned, store0>>
  /\ history' = [history EXCEPT ![<<Instr, TaskEvent(i).id>>] =
                   Append(@, [key |-> InsertKey(store, TaskEvent(i)), val |-> TaskEvent(i).value])]
  /\ UNCHANGED <<last, invs, ws, market>>

\* pipeline_result.lock().push(event)
task_push(i) ==
  /\ tasks[i].pc = "push"
  /\ pipeline_result' = Append(pipeline_result, TaskEvent(i))
  /\ tasks' = [tasks EXCEPT ![i].pc = "neighbors"]
  /\ UNCHANGED <<catalog, poolSize, pc, graph, order, store, in_degrees, queue,
                 returned, store0>>
  /\ UNCHANGED <<history, last, invs, ws, market>>

\* one iteration of the neighbor loop, under the in_degrees lock
task_neighbor(i) ==
  /\ tasks[i].pc = "neighbors"
  /\ tasks[i].nb <= Len(Neighbors(graph, tasks[i].node))
  /\ LET neighbor == Neighbors(graph, tasks[i].node)[tasks[i].nb]
         deg == [in_degrees EXCEPT ![neighbor] = @ - 1]
     IN  /\ in_degrees' = deg
         /\ queue' = IF NowReady(deg, neighbor) THEN Append(queue, neighbor) ELSE queue
  /\ tasks' = [tasks EXCEPT ![i].nb = @ + 1]
  /\ UNCHANGED <<catalog, poolSize, pc, graph, order, store, pipeline_result,
                 returned, store0>>
  /\ UNCHANGED <<history, last, invs, ws, market>>

\* after the loop: the all-zero test and the exit message; the closure ends
task_finish(i) ==
  /\ tasks[i].pc = "neighbors"
  /\ tasks[i].nb > Len(Neighbors(graph, tasks[i].node))
  /\ queue' = IF AllZero(in_degrees) THEN Append(queue, None) ELSE queue
  /\ tasks' = [tasks EXCEPT ![i].pc = "done"]
  /\ UNCHANGED <<catalog, poolSize, pc, graph, order, store, in_degrees,
                 pipeline_result, returned, store0>>
  /\ UNCHANGED <<history, last, invs, ws, market>>

\* pool.scope returns once every spawned closure has ended; the batch is
\* cloned out of the mutex and returned
calculate_return ==
  /\ pc = "join"
  /\ \A i \in 1..Len(tasks) : tasks[i].pc = "done"
  /\ returned' = Append(returned, Range(pipeline_result))
  /\ pc' = "returned"
  /\ UNCHANGED <<catalog, poolSize, graph, order, store, in_degrees, queue, tasks,
                 pipeline_result, store0>>
  /\ UNCHANGED <<history, last, invs, ws, market>>

Next ==
  \/ from_config
  \/ calculate_begin
  \/ dispatch_recv
  \/ \E i \in 1..Len(tasks) : \E p \in tasks[i].unread : task_read(i, p)
  \/ \E i \in 1..Len(tasks) : task_add_feature(i)
  \/ \E i \in 1..Len(tasks) : task_push(i)
  \/ \E i \in 1..Len(tasks) : task_neighbor(i)
  \/ \E i \in 1..Len(tasks) : task_finish(i)
  \/ calculate_return

Spec == Init /\ [][Next]_vars

\* the threads of the pool and the calling thread keep running
FairSpec == Init /\ [][Next]_vars /\ WF_vars(Next)

\* ------------------------------------------------------------ vocabulary
Constructed == pc \in {"built", "dispatch", "join", "returned"}
InCalculate == pc \in {"dispatch", "join"}

TaskIds == 1..Len(tasks)
TasksOf(n) == {i \in TaskIds : tasks[i].node = n}

\* where a closure stands
HasQueried(i)   == tasks[i].unread # 1..Len(catalog[tasks[i].node].sources)
Failed(i)       == tasks[i].unread = {} /\ ~ tasks[i].res.ok
WritesDone(i)   == tasks[i].pc \in {"push", "neighbors", "done"}
Pushed(i)       == tasks[i].pc \in {"neighbors", "done"} /\ tasks[i].res.ok

\* producers of a node in the graph, direct and transitive
DirectProducers(n) == {graph[e][1] : e \in {x \in 1..Len(graph) : graph[x][2] = n}}
RECURSIVE ProducersWithin(_, _)
ProducersWithin(n, k) ==
  IF k = 0 THEN {}
  ELSE DirectProducers(n) \cup UNION {ProducersWithin(m, k - 1) : m \in DirectProducers(n)}
Producers(n) == ProducersWithin(n, Len(catalog))

StoreSize(st) ==
  LET RECURSIVE Total(_)
      Total(K) == IF K = {} THEN 0
                  ELSE LET k == CHOOSE x \in K : TRUE IN Len(st[k]) + Total(K \ {k})
  IN  Total(DOMAIN st)

\* the events of one sequential evaluation of the nodes in the order ord
RECURSIVE SequentialEvents(_, _, _, _)
SequentialEvents(cat, ord, i, st) ==
  IF i > Len(ord) THEN {}
  ELSE LET feature == cat[ord[i]]
           reads == [p \in 1..Len(feature.sources) |->
                       query(st, Instr, feature.sources[p], EventTime, feature.data_type)]
           res == Feature_calculate(feature, reads)
           event == FeatureEvent_new(feature.id, Instr, EventTime, res.value)
       IN  IF res.ok
           THEN {event} \cup SequentialEvents(cat, ord, i + 1, insert(st, event))
           ELSE SequentialEvents(cat, ord, i + 1, st)

\* ------------------------------------------------------ SMAFeature (sma.rs)
\* Feature values are f64: NaN, or the quotient num / den of two integers
\* (rounding is not modelled).
NaN == [nan |-> TRUE, num |-> 0, den |-> 1]
Quot(n, d) == [nan |-> FALSE, num |-> n, den |-> d]
SameValue(x, y) == x.nan = y.nan /\ (~ x.nan => x.num * y.den = y.num * x.den)

\* FeatureDataResponse: a map FeatureId -> values; mean and count of one id
\* are None when the response does not have the id
Response_mean(data, id) ==
  IF id \in DOMAIN data /\ data[id] # <<>>
  THEN [some |-> TRUE, value |-> Quot(SumSeq(data[id]), Len(data[id]))]
  ELSE [some |-> FALSE, value |-> Quot(0, 1)]

Response_count(data, id) ==
  IF id \in DOMAIN data
  THEN [some |-> TRUE, value |-> Len(data[id])]
  ELSE [some |-> FALSE, value |-> 0]

\* Option::unwrap_or
UnwrapOr(opt, default) == IF opt.some THEN opt.value ELSE default

\* (variant: an empty input is reported as an error)
SMAFeature_calculate_ErrOnEmpty(self, data) ==
  LET sum == UnwrapOr(Response_mean(data, self.input.feature_id), Quot(0, 1))
      count == UnwrapOr(Response_count(data, self.input.feature_id), 0)
  IN  IF count = 0
      THEN [ok |-> FALSE, outputs |-> <<>>]
      ELSE [ok |-> TRUE, outputs |-> [o \in {self.output} |-> Quot(sum.num, sum.den * count)]]

\* SMAFeature::calculate
SMAFeature_calculate(self, data) ==
  LET sum == UnwrapOr(Response_mean(data, self.input.feature_id), Quot(0, 1))
      count == UnwrapOr(Response_count(data, self.input.feature_id), 0)
      mean == IF count = 0 THEN NaN ELSE Quot(sum.num, sum.den * count)
  IN  [ok |-> TRUE, outputs |-> [o \in {self.output} |-> mean]]

\* SMAFeature::from_config
SMAFeature_from_config(config) ==
  [id |-> config.id, sources |-> <<config.input.from>>, input |-> config.input,
   output |-> config.output]

\* ------------------------------------------- the store and SMA on their own
\* add_feature, read_features and SMAFeature::calculate applied to a store
\* that starts empty, with timestamps in any order.
StoreIds == {"a", "b"}
Timestamps == 1..EventTime
AsOfs == 1..(EventTime + 1)
QueryTypes ==
  {Latest} \cup {[type |-> "Window", window |-> d] : d \in 0..WindowLen}
           \cup {[type |-> "Period", periods |-> n] : n \in 0..NumPeriods}

EmptyStore == [k \in {Instr} \X FeatureIds |-> <<>>]

StoreInit ==
  /\ catalog = <<>>
  /\ poolSize = 1
  /\ pc = "start"
  /\ graph = <<>>
  /\ order = <<>>
  /\ store = EmptyStore
  /\ in_degrees = <<>>
  /\ queue = <<>>
  /\ tasks = <<>>
  /\ pipeline_result = <<>>
  /\ returned = <<>>
  /\ store0 = EmptyStore
  /\ history = EmptyStore
  /\ last = NoOperation
  /\ invs = <<>>
  /\ ws = <<>>
  /\ market = <<>>

\* State::add_feature(event): the event's value is the number of the insertion
add_feature(id, ts) ==
  /\ StoreSize(store) < MaxInserts
  /\ LET event == FeatureEvent_new(id, Instr, ts, StoreSize(store) + 1)
     IN  /\ store' = insert(store, event)
         /\ history' = [history EXCEPT ![<<Instr, id>>] =
                          Append(@, [key |-> InsertKey(store, event), val |-> event.value])]
  /\ last' = NoOperation
  /\ UNCHANGED <<catalog, poolSize, pc, graph, order, in_degrees, queue, tasks,
                 pipeline_result, returned, store0, invs, ws, market>>

\* State::read_features for one source
read_features(id, as_of, data_type) ==
  /\ last = NoOperation
  /\ last' = [op |-> "query", id |-> id, as_of |-> as_of, data_type |-> data_type,
              result |-> query(store, Instr, id, as_of, data_type),
              feature_id |-> id, sma |-> NoOperation.sma]
  /\ UNCHANGED <<catalog, poolSize, pc, graph, order, store, in_degrees, queue, tasks,
                 pipeline_result, returned, store0, history, invs, ws, market>>

\* an SMA node over the source id is evaluated: read_features, then calculate
sma_calculate(id, as_of, data_type, feature_id) ==
  LET self == SMAFeature_from_config(
                [id |-> "sma", input |-> [from |-> id, feature_id |-> feature_id],
                 output |-> "sma_out"])
      data == [f \in {id} |-> query(store, Instr, id, as_of, data_type)]
  IN  /\ last = NoOperation
      /\ last' = [op |-> "sma", id |-> id, as_of |-> as_of, data_type |-> data_type,
                  result |-> data[id], feature_id |-> feature_id,
                  sma |-> SMAFeature_calculate(self, data)]
      /\ UNCHANGED <<catalog, poolSize, pc, graph, order, store, in_degrees, queue, tasks,
                     pipeline_result, returned, store0, history, invs, ws, market>>

StoreNext ==
  \/ \E id \in StoreIds : \E ts \in Timestamps : add_feature(id, ts)
  \/ \E id \in StoreIds : \E as_of \in AsOfs : \E data_type \in QueryTypes :
       read_features(id, as_of, data_type)
  \/ \E id \in StoreIds : \E as_of \in AsOfs : \E data_type \in QueryTypes \ {Latest} :
       \E feature_id \in {id, "zz"} : sma_calculate(id, as_of, data_type, feature_id)

StoreSpec == StoreInit /\ [][StoreNext]_vars

\* ------------------------------------------------------------ MarketState
\* quotes, trades and agg_trades are maps Instrument -> VecDeque, each under
\* its own RwLock; a handler holds the write lock of its map from the entry
\* lookup to the push, so a handler is one step.
Payloads == {1, 2}
MarketEvents == [instrument : Instruments, payload : Payloads]

NoCall == [op |-> "none", event |-> [instrument |-> "", payload |-> 0]]

\* MarketState::default()
MarketState_default ==
  [quotes |-> <<>>, trades |-> <<>>, agg_trades |-> <<>>, call |-> NoCall]

\* entry(instrument).or_default(): the buffer of the instrument, empty if absent
OrDefault(map, instrument) == IF instrument \in DOMAIN map THEN map[instrument] ELSE <<>>

\* (variant: push_front in place of push_back)
PushBack_Front(map, instrument, x) ==
  [k \in DOMAIN map \cup {instrument} |->
     IF k = instrument THEN <<x>> \o OrDefault(map, instrument) ELSE map[k]]

\* locked.entry(instrument).or_default().push_back(x)
PushBack(map, instrument, x) ==
  [k \in DOMAIN map \cup {instrument} |->
     IF k = instrument THEN Append(OrDefault(map, instrument), x) ELSE map[k]]

Updates(m) ==
  LET Total(map) == IF DOMAIN map = {} THEN 0
                    ELSE Len(OrDefault(map, "I1")) + Len(OrDefault(map, "I2"))
  IN  Total(m.quotes) + Total(m.trades) + Total(m.agg_trades)

MarketInit ==
  /\ catalog = <<>>
  /\ poolSize = 1
  /\ pc = "start"
  /\ graph = <<>>
  /\ order = <<>>
  /\ store = EmptyStore
  /\ in_degrees = <<>>
  /\ queue = <<>>
  /\ tasks = <<>>
  /\ pipeline_result = <<>>
  /\ returned = <<>>
  /\ store0 = EmptyStore
  /\ history = EmptyStore
  /\ last = NoOperation
  /\ invs = <<>>
  /\ ws = <<>>
  /\ market = MarketState_default

handle_tick_update(tick) ==
  /\ Updates(market) < MaxUpdates
  /\ market' = [market EXCEPT !.quotes = PushBack(@, tick.instrument, tick),
                              !.call = [op |-> "tick", event |-> tick]]
  /\ UNCHANGED <<catalog, poolSize, pc, graph, order, store, in_degrees, queue, tasks,
                 pipeline_result, returned, store0, history, last, invs, ws>>

handle_trade_update(trade) ==
  /\ Updates(market) < MaxUpdates
  /\ market' = [market EXCEPT !.trades = PushBack(@, trade.instrument, trade),
                              !.call = [op |-> "trade", event |-> trade]]
  /\ UNCHANGED <<catalog, poolSize, pc, graph, order, store, in_degrees, queue, tasks,
                 pipeline_result, returned, store0, history, last, invs, ws>>

handle_agg_trade_update(trade) ==
  /\ Updates(market) < MaxUpdates
  /\ market' = [market EXCEPT !.agg_trades = PushBack(@, trade.instrument, trade),
                              !.call = [op |-> "agg_trade", event |-> trade]]
  /\ UNCHANGED <<catalog, poolSize, pc, graph, order, store, in_degrees, queue, tasks,
                 pipeline_result, returned, store0, history, last, invs, ws>>

MarketNext ==
  \/ \E tick \in MarketEvents : handle_tick_update(tick)
  \/ \E trade \in MarketEvents : handle_trade_update(trade)
  \/ \E trade \in MarketEvents : handle_agg_trade_update(trade)

MarketSpec == MarketInit /\ [][MarketNext]_vars

\* ------------------------------------- calculate() for two instruments at once
\* Two threads call calculate() on the same Pipeline, one per instrument, at
\* the same event time.  Graph, order and store are shared; in_degrees, the
\* channel, the pool and pipeline_result are locals of each call, kept in
\* invs[instrument].  invs[instrument].own is the store the call would see
\* were it running with no other call beside it: it takes the call's own
\* writes only.  same_reads tells whether every read so far returned from the
\* shared store what the own store holds.
ConcCatalogs ==
  {c \in Catalogs :
     /\ Len(c) <= MaxConcNodes
     /\ ~ UnwrapPanics(c)
     /\ toposort(Len(c), EdgesToAdd(c, 1)).ok}

\* the store before the calls: ticks of both instruments have been ingested
ConcStore ==
  [k \in Instruments \X FeatureIds |->
     IF k[2] = "mid_price"
     THEN IF k[1] = Instr
          THEN <<[key |-> CompositeKey_new(1), val |-> 5], [key |-> CompositeKey_new(2), val |-> 7]>>
          ELSE <<[key |-> CompositeKey_new(2), val |-> 3]>>
     ELSE <<>>]

NotCalled ==
  [pc |-> "idle", in_degrees |-> <<>>, queue |-> <<>>, tasks |-> <<>>,
   pipeline_result |-> <<>>, own |-> ConcStore, same_reads |-> TRUE]

ConcInit ==
  /\ catalog \in ConcCatalogs
  /\ poolSize = MaxPool
  /\ pc = "built"
  /\ graph = EdgesToAdd(catalog, 1)
  /\ order = toposort(Len(catalog), EdgesToAdd(catalog, 1)).order
  /\ store = ConcStore
  /\ in_degrees = <<>>
  /\ queue = <<>>
  /\ tasks = <<>>
  /\ pipeline_result = <<>>
  /\ returned = <<>>
  /\ store0 = ConcStore
  /\ history = ConcStore
  /\ last = NoOperation
  /\ invs = [ins \in Instruments |-> NotCalled]
  /\ ws = <<>>
  /\ market = <<>>

ConcFrame ==
  UNCHANGED <<catalog, poolSize, pc, graph, order, in_degrees, queue, tasks,
              pipeline_result, returned, store0, history, last, ws, market>>

\* calculate(ins, EventTime) is called: Steps 1 and 2
conc_begin(ins) ==
  /\ invs[ins].pc = "idle"
  /\ invs' = [invs EXCEPT ![ins].pc = "dispatch",
                          ![ins].in_degrees = InDegrees(Len(catalog), graph),
                          ![ins].queue = SeedQueue(InDegrees(Len(catalog), graph), order, 1)]
  /\ UNCHANGED store
  /\ ConcFrame

\* one iteration of the while let loop of the call for ins
conc_recv(ins) ==
  /\ invs[ins].pc = "dispatch"
  /\ invs[ins].queue # <<>>
  /\ invs' = IF Head(invs[ins].queue) = None
             THEN [invs EXCEPT ![ins].queue = Tail(@), ![ins].pc = "join"]
             ELSE [invs EXCEPT ![ins].queue = Tail(@),
                               ![ins].tasks = Append(@, NewTask(Head(invs[ins].queue)))]
  /\ UNCHANGED store
  /\ ConcFrame

\* the pool of the call: the thread of the scope closure and the running jobs
ConcFreeThreads(ins) ==
  (IF invs[ins].pc = "dispatch" THEN poolSize - 1 ELSE poolSize)
    - Cardinality({i \in 1..Len(invs[ins].tasks) :
                     invs[ins].tasks[i].pc \notin {"spawned", "done"}})

\* state.read_features of one source by closure i of the call for ins
conc_read(ins, i, p) ==
  /\ invs[ins].pc \in {"dispatch", "join"}
  /\ \/ invs[ins].tasks[i].pc = "spawned" /\ ConcFreeThreads(ins) > 0
     \/ invs[ins].tasks[i].pc = "read"
  /\ p \in invs[ins].tasks[i].unread
  /\ LET task == invs[ins].tasks[i]
         feature == catalog[task.node]
         data == query(store, ins, feature.sources[p], EventTime, feature.data_type)
         alone == query(invs[ins].own, ins, feature.sources[p], EventTime, feature.data_type)
         reads == [task.reads EXCEPT ![p] = data]
         res == Feature_calculate(feature, reads)
     IN  invs' = [invs EXCEPT
                    ![ins].same_reads = @ /\ data = alone,
                    ![ins].tasks[i] =
                       IF task.unread = {p}
                       THEN [task EXCEPT !.reads = reads, !.unread = {}, !.res = res,
                                         !.pc = AfterCalculate(res)]
                       ELSE [task EXCEPT !.reads = reads, !.unread = @ \ {p}, !.pc = "read"]]
  /\ UNCHANGED store
  /\ ConcFrame

ConcEvent(ins, i) ==
  FeatureEvent_new(catalog[invs[ins].tasks[i].node].id, ins, EventTime,
                   invs[ins].tasks[i].res.value)

\* state.add_feature(event.clone()) by closure i of the call for ins; the own
\* store takes the value into the bucket of the call's instrument
conc_add_feature(ins, i) ==
  /\ invs[ins].tasks[i].pc = "save"
  /\ store' = insert(store, ConcEvent(ins, i))
  /\ invs' = [invs EXCEPT ![ins].tasks[i].pc = "push",
                          ![ins].own = insert(@, [ConcEvent(ins, i) EXCEPT !.instrument = ins])]
  /\ ConcFrame

\* the neighbor loop from its k-th iteration on: the counters and the channel after it
RECURSIVE NeighborLoop(_, _, _, _)
NeighborLoop(deg, ch, nbs, k) ==
  IF k > Len(nbs) THEN [in_degrees |-> deg, queue |-> ch]
  ELSE LET d == [deg EXCEPT ![nbs[k]] = @ - 1]
       IN  NeighborLoop(d, IF NowReady(d, nbs[k]) THEN Append(ch, nbs[k]) ELSE ch, nbs, k + 1)

\* the rest of closure i, all on locals of the call: the push of the event,
\* the neighbor loop, the all-zero test and the exit message
conc_finish(ins, i) ==
  /\ invs[ins].tasks[i].pc \in {"push", "neighbors"}
  /\ LET inv == invs[ins]
         after == NeighborLoop(inv.in_degrees, inv.queue, Neighbors(graph, inv.tasks[i].node), 1)
     IN  invs' = [invs EXCEPT
                    ![ins].pipeline_result =
                       IF inv.tasks[i].pc = "push" THEN Append(@, ConcEvent(ins, i)) ELSE @,
                    ![ins].in_degrees = after.in_degrees,
                    ![ins].queue = IF AllZero(after.in_degrees)
                                   THEN Append(after.queue, None) ELSE after.queue,
                    ![ins].tasks[i].nb = Len(Neighbors(graph, inv.tasks[i].node)) + 1,
                    ![ins].tasks[i].pc = "done"]
  /\ UNCHANGED store
  /\ ConcFrame

\* pool.scope of the call for ins returns, and with it calculate()
conc_return(ins) ==
  /\ invs[ins].pc = "join"
  /\ \A i \in 1..Len(invs[ins].tasks) : invs[ins].tasks[i].pc = "done"
  /\ invs' = [invs EXCEPT ![ins].pc = "returned"]
  /\ UNCHANGED store
  /\ ConcFrame

ConcNext ==
  \E ins \in Instruments :
    \/ conc_begin(ins)
    \/ conc_recv(ins)
    \/ \E i \in 1..Len(invs[ins].tasks) : \E p \in invs[ins].tasks[i].unread : conc_read(ins, i, p)
    \/ \E i \in 1..Len(invs[ins].tasks) : conc_add_feature(ins, i)
    \/ \E i \in 1..Len(invs[ins].tasks) : conc_finish(ins, i)
    \/ conc_return(ins)

ConcSpec == ConcInit /\ [][ConcNext]_vars

\* ------------------------------------------------------- WebSocketManager
\* ws.permits     permits the semaphore limit_connections has available
\* ws.limit       the connections argument of WebSocketManager::new
\* ws.mgr         where run is: "select", "connecting" (inside start_handler,
\*                holding the acquired permit) or "dropped" (the future of run
\*                was dropped, and with it the receiver of the channel)
\* ws.handlers    the spawned handler tasks, in spawn order
\* ws.channel     what the handlers sent into the flume channel, in order
\* ws.read        how many channel messages run has received
\* ws.attempts    permits acquired so far
TextMsg(p) == [kind |-> "Text", payload |-> p]
PingMsg(p) == [kind |-> "Ping", payload |-> p]
PongMsg(p) == [kind |-> "Pong", payload |-> p]
CloseMsg == [kind |-> "Close", payload |-> 0]

\* From<Subscription> for Message: the serialized subscription as a Text
SubscriptionMsg == TextMsg("SUBSCRIBE")

\* what stream.next() can yield: a message, an error, or the end of the stream
Inbound == {TextMsg(p) : p \in Payloads} \cup {PingMsg(1), CloseMsg}
StreamErr == [kind |-> "Err", payload |-> 0]
StreamEnd == [kind |-> "End", payload |-> 0]

\* Handler::new after a successful connect_async, spawned
Handler_new ==
  [pc |-> "subscribe", received |-> <<>>, sent |-> <<>>, forwarded |-> <<>>, result |-> "running"]

WsHandlers == 1..Len(ws.handlers)
Received == LET RECURSIVE Sum(_)
                Sum(h) == IF h = 0 THEN 0 ELSE Len(ws.handlers[h].received) + Sum(h - 1)
            IN  Sum(Len(ws.handlers))

WsInit ==
  /\ catalog = <<>>
  /\ poolSize = 1
  /\ pc = "start"
  /\ graph = <<>>
  /\ order = <<>>
  /\ store = EmptyStore
  /\ in_degrees = <<>>
  /\ queue = <<>>
  /\ tasks = <<>>
  /\ pipeline_result = <<>>
  /\ returned = <<>>
  /\ store0 = EmptyStore
  /\ history = EmptyStore
  /\ last = NoOperation
  /\ invs = <<>>
  /\ market = <<>>
  /\ \E connections \in 1..MaxConnections :
       ws = [permits |-> connections, limit |-> connections, mgr |-> "select",
             handlers |-> <<>>, channel |-> <<>>, read |-> 0, attempts |-> 0]

WsFrame ==
  UNCHANGED <<catalog, poolSize, pc, graph, order, store, in_degrees, queue, tasks,
              pipeline_result, returned, store0, history, last, invs, market>>

\* (variant: acquire_owned completes whatever the number of permits)
CanAcquire_Always(permits) == TRUE

\* Semaphore::acquire_owned completes only when a permit is available
CanAcquire(permits) == permits > 0

\* (variant: the permit is forgotten instead of returned)
Release_Leak(permits) == permits

\* drop(permit): the OwnedSemaphorePermit gives its permit back
Release(permits) == permits + 1

\* select!: the acquire_owned branch completes and start_handler is entered
run_acquire ==
  /\ ws.mgr = "select"
  /\ CanAcquire(ws.permits)
  /\ ws.attempts < MaxAttempts
  /\ ws' = [ws EXCEPT !.permits = @ - 1, !.mgr = "connecting", !.attempts = @ + 1]
  /\ WsFrame

\* start_handler: connect_async succeeds, the handler task is spawned with
\* the permit moved into it
start_handler_ok ==
  /\ ws.mgr = "connecting"
  /\ ws' = [ws EXCEPT !.handlers = Append(@, Handler_new), !.mgr = "select"]
  /\ WsFrame

\* start_handler: Handler::new fails; the permit, owned by start_handler, is
\* dropped on return and run logs the error
start_handler_err ==
  /\ ws.mgr = "connecting"
  /\ ws' = [ws EXCEPT !.permits = Release(@), !.mgr = "select"]
  /\ WsFrame

\* select!: the recv_async branch completes with a message, which is logged
run_recv ==
  /\ ws.mgr = "select"
  /\ ws.read < Len(ws.channel)
  /\ ws' = [ws EXCEPT !.read = @ + 1]
  /\ WsFrame

\* the caller drops the future of run: sender and receiver of the channel go,
\* and a permit held inside start_handler is released
run_dropped ==
  /\ ws.mgr # "dropped"
  /\ ws' = [ws EXCEPT !.mgr = "dropped",
                      !.permits = IF ws.mgr = "connecting" THEN Release(@) ELSE @]
  /\ WsFrame

\* the spawned task after handle.run() has returned: drop(permit)
Ended(handler, result) == [handler EXCEPT !.pc = "done", !.result = result]

\* (variant: the result of sending the subscription is not looked at)
AfterSubscribe_Ignored(ok) == "loop"

\* the ? on stream.send(sub.into()).await: an error leaves run
AfterSubscribe(ok) == IF ok THEN "loop" ELSE "done"

\* Handler::run up to the loop: the subscription is sent on the stream
handler_subscribe(h, ok) ==
  /\ ws.handlers[h].pc = "subscribe"
  /\ LET tried == IF ok THEN [ws EXCEPT !.handlers[h].sent = Append(@, SubscriptionMsg)]
                  ELSE ws
     IN  ws' = IF AfterSubscribe(ok) = "loop"
               THEN [tried EXCEPT !.handlers[h].pc = "loop"]
               ELSE [tried EXCEPT !.handlers[h] = Ended(@, "err"), !.permits = Release(@)]
  /\ WsFrame

\* Message::Pong(ping)
PongFor(ping) == PongMsg(ping.payload)

\* (variant: Ping messages are forwarded like Text messages)
Forwards_TextAndPing(msg) == msg.kind \in {"Text", "Ping"}

\* the arm of handle_message that sends into the channel
Forwards(msg) == msg.kind = "Text"

\* one iteration of the while let loop: stream.next() yields a message and
\* handle_message(msg) runs; sink_ok says whether stream.send succeeds
handler_message(h, msg, sink_ok) ==
  /\ ws.handlers[h].pc = "loop"
  /\ Received < MaxMessages
  /\ LET got == [ws EXCEPT !.handlers[h].received = Append(@, msg)]
     IN  ws' =
           IF Forwards(msg)
           THEN IF ws.mgr # "dropped"
                THEN [got EXCEPT !.channel = Append(@, [from |-> h, msg |-> msg]),
                                 !.handlers[h].forwarded = Append(@, msg)]
                ELSE [got EXCEPT !.handlers[h] = Ended(@, "err"), !.permits = Release(@)]
           ELSE IF msg.kind = "Ping"
           THEN IF sink_ok
                THEN [got EXCEPT !.handlers[h].sent = Append(@, PongFor(msg))]
                ELSE [got EXCEPT !.handlers[h] = Ended(@, "err"), !.permits = Release(@)]
           ELSE got
  /\ WsFrame

\* stream.next() yields an error (msg?) or None (the loop ends, Ok(()))
handler_stream_over(h, how) ==
  /\ ws.handlers[h].pc = "loop"
  /\ ws' = [ws EXCEPT !.handlers[h] =
                         Ended([@ EXCEPT !.received = Append(@, how)],
                               IF how = StreamErr THEN "err" ELSE "ok"),
                      !.permits = Release(@)]
  /\ WsFrame

WsNext ==
  \/ run_acquire
  \/ start_handler_ok
  \/ start_handler_err
  \/ run_recv
  \/ run_dropped
  \/ \E h \in WsHandlers : \E ok \in BOOLEAN : handler_subscribe(h, ok)
  \/ \E h \in WsHandlers : \E msg \in Inbound : \E sink_ok \in BOOLEAN :
       handler_message(h, msg, sink_ok)
  \/ \E h \in WsHandlers : \E how \in {StreamErr, StreamEnd} : handler_stream_over(h, how)

WsSpec == WsInit /\ [][WsNext]_vars

\* the runtime keeps polling the task of run, and select! takes a branch
\* that stays ready
WsFairSpec ==
  WsInit /\ [][WsNext]_vars
         /\ WF_vars(run_acquire \/ start_handler_ok \/ start_handler_err)

\* ------------------------------------------------------------------ claims

\* C1: for a pipeline built from zero features, calculate(instrument, t)
\* returns, with an empty batch and without a single State Store write.
C1_EmptyDagReturns ==
  (catalog = <<>> /\ pc = "dispatch")
     ~> (pc = "returned" /\ pipeline_result = <<>> /\ store = store0)

\* C2: on every non-empty acyclic DAG, with a pool of any size >= 1, a
\* calculate() invocation eventually returns to its caller.
C2_CalculateReturns ==
  (catalog # <<>> /\ pc = "dispatch") ~> (pc = "returned")

\* C3: when calculate() returns, every node of the DAG has been processed
\* exactly once in that invocation: none skipped, none dispatched twice,
\* parallel edges included.
C3_EveryNodeOnce ==
  pc = "returned" =>
    /\ Len(tasks) = Len(catalog)
    /\ \A n \in Nodes : \E i \in TasksOf(n) : tasks[i].pc = "done" /\ tasks[i].unread = {}

HasParallelEdges == \E e, f \in 1..Len(graph) : e # f /\ graph[e] = graph[f]

C3_Witness == pc = "returned" /\ HasParallelEdges /\ Len(tasks) = Len(catalog)

\* C4: a node's store query is issued only after every direct and
\* transitive producer of it has finished all its add_feature writes of
\* this invocation.
C4_QueryAfterProducers ==
  \A i \in TaskIds :
    HasQueried(i) =>
      \A prod \in Producers(tasks[i].node) : \E j \in TasksOf(prod) : WritesDone(j)

C4_Witness ==
  \E i \in TaskIds :
    /\ HasQueried(i)
    /\ Producers(tasks[i].node) \ DirectProducers(tasks[i].node) # {}

\* C5: whatever the consumer's query type, the value its producer wrote at
\* the triggering event_time in this invocation is in the result of the
\* consumer's query of that producer.
C5_ProducerValueVisible ==
  \A i \in TaskIds :
    \A p \in 1..Len(catalog[tasks[i].node].sources) :
      LET src == catalog[tasks[i].node].sources[p]
      IN  (p \notin tasks[i].unread /\ src \notin BASE_IDS) =>
            \A j \in TasksOf(FindNode(catalog, src)) :
              tasks[j].res.ok => tasks[j].res.value \in Range(tasks[i].reads[p])

\* C6: from the same store contents and the same calculate() inputs every
\* interleaving of the workers emits the same set of events (the set a
\* sequential run in the persisted order emits).
C6_EmittedSetDeterministic ==
  pc = "returned" =>
    Range(pipeline_result) = SequentialEvents(catalog, order, 1, store0)

\* C7: two calculate(instrument, t) calls in a row with no ingestion in
\* between return the same set of events.
C7_SecondCallSameSet ==
  Len(returned) >= 2 => returned[2] = returned[1]

\* in-degree decrements a closure has applied to node v so far
DecrementsBy(i, v) ==
  Cardinality({k \in 1..(tasks[i].nb - 1) : Neighbors(graph, tasks[i].node)[k] = v})

RECURSIVE DecrementsUpTo(_, _)
DecrementsUpTo(i, v) == IF i = 0 THEN 0 ELSE DecrementsBy(i, v) + DecrementsUpTo(i - 1, v)

\* C8: a node whose calculate fails writes no event to the store and adds
\* none to the batch; the in-degrees of its dependents are decremented all
\* the same, every dependent runs, and the invocation is never left stuck
\* and returns.
C8_FailureIsolated ==
  (InCalculate \/ pc = "returned") =>
    /\ Len(pipeline_result) = Cardinality({i \in TaskIds : Pushed(i)})
    /\ StoreSize(store) - StoreSize(store0)
         = Cardinality({i \in TaskIds : WritesDone(i) /\ tasks[i].res.ok})
    /\ \A i \in TaskIds :
         (Failed(i) /\ tasks[i].pc = "done") =>
            tasks[i].nb = Len(Neighbors(graph, tasks[i].node)) + 1
    /\ \A v \in Nodes :
         in_degrees[v] = InDegrees(Len(catalog), graph)[v] - DecrementsUpTo(Len(tasks), v)
    /\ (InCalculate /\ \E i \in TaskIds : Failed(i)) => ENABLED Next
    /\ pc = "returned" =>
         \A i \in TaskIds :
           Failed(i) =>
             \A v \in Range(Neighbors(graph, tasks[i].node)) :
               \E j \in TasksOf(v) : tasks[j].pc = "done"

C8_Witness ==
  /\ pc = "returned"
  /\ \E i \in TaskIds : Failed(i) /\ Neighbors(graph, tasks[i].node) # <<>>

\* the declared sources of cat, resolved as from_config resolves them, hold a
\* cycle: some non-empty set of nodes each has a producer inside the set
DeclaredCycle(cat) ==
  \E S \in SUBSET (1..Len(cat)) :
    /\ S # {}
    /\ \A n \in S : \E p \in 1..Len(cat[n].sources) :
         cat[n].sources[p] \notin BASE_IDS /\ FindNode(cat, cat[n].sources[p]) \in S

UnresolvedSource(cat) ==
  \E n \in 1..Len(cat) : \E p \in 1..Len(cat[n].sources) :
    /\ cat[n].sources[p] \notin BASE_IDS
    /\ \A m \in 1..Len(cat) : cat[m].id # cat[n].sources[p]

\* C10: a configuration in which a node declares a source that is neither a
\* base identifier nor the id of a configured node fails at construction; no
\* pipeline is produced.
C10_UnresolvedRejected ==
  UnresolvedSource(catalog) => (~ Constructed /\ tasks = <<>> /\ returned = <<>>)

C10_Witness == pc = "panic_source" /\ UnresolvedSource(catalog)

DuplicateIds(cat) == \E m, n \in 1..Len(cat) : m # n /\ cat[m].id = cat[n].id

\* C11: a configuration in which two nodes carry the same identifier is
\* rejected at construction, so that in every constructed pipeline each
\* non-base source names exactly one node.
C11_DuplicateIdRejected ==
  /\ DuplicateIds(catalog) => ~ Constructed
  /\ Constructed =>
       \A n \in Nodes : \A p \in 1..Len(catalog[n].sources) :
         catalog[n].sources[p] \notin BASE_IDS =>
           Cardinality({m \in Nodes : catalog[m].id = catalog[n].sources[p]}) = 1

Buckets == DOMAIN history

\* C12: in every bucket the composite keys assigned by successive insertions,
\* whatever the order of their timestamps, increase strictly in insertion order.
C12_KeysFollowInsertionOrder ==
  \A b \in Buckets : \A i, j \in 1..Len(history[b]) :
    i < j => KeyLt(history[b][i].key, history[b][j].key)

TimestampsNonDecreasing(h) ==
  \A i, j \in 1..Len(h) : i < j => h[i].key.ts <= h[j].key.ts

\* C12 (amended): in every bucket whose insertions arrive with non-decreasing
\* timestamps, the composite keys increase strictly in insertion order, also
\* when timestamps repeat.
C12_KeysFollowInsertionOrderInTime ==
  \A b \in Buckets :
    TimestampsNonDecreasing(history[b]) =>
      \A i, j \in 1..Len(history[b]) :
        i < j => KeyLt(history[b][i].key, history[b][j].key)

C12_Witness ==
  \E b \in Buckets :
    /\ Len(history[b]) >= 3
    /\ TimestampsNonDecreasing(history[b])
    /\ history[b][1].key.ts = history[b][2].key.ts
    /\ history[b][2].key.ts < history[b][3].key.ts

\* C13: an insertion at a timestamp the bucket already holds gets a key above
\* every key of that timestamp; no entry is overwritten and the bucket grows
\* by exactly one entry per insertion.
C13_SameTimestampAppends ==
  \A b \in Buckets :
    /\ Len(store[b]) = Len(history[b])
    /\ \A i \in 1..Len(history[b]) : history[b][i] \in Range(store[b])
    /\ \A i, j \in 1..Len(history[b]) :
         (i < j /\ history[b][i].key.ts = history[b][j].key.ts) =>
            KeyLt(history[b][i].key, history[b][j].key)

C13_Witness ==
  \E b \in Buckets :
    /\ Len(history[b]) >= 3
    /\ \A i \in 1..Len(history[b]) : history[b][i].key.ts = history[b][1].key.ts
    /\ Len(store[b]) = 3

\* the bucket the last observation read, and its entries in a span of timestamps
LastBucket == store[<<Instr, last.id>>]

EntriesBetween(b, lo, hi) == SelectSeq(b, LAMBDA e : lo <= e.key.ts /\ e.key.ts <= hi)

IsQuery(type) == last.op = "query" /\ last.data_type.type = type

\* C14: a Window(d) query at t returns, in ascending key order, exactly the
\* entries whose timestamp is strictly between t - d and t; an entry at
\* timestamp t - d and an entry at timestamp t are both left out.
C14_WindowOpenInterval ==
  IsQuery("Window") =>
    last.result =
      Vals(EntriesBetween(LastBucket, last.as_of - last.data_type.window + 1, last.as_of - 1))

\* C15: a Latest query at as_of returns at most one element: nothing when the
\* bucket has no entry with timestamp <= as_of, and otherwise the entry with
\* the greatest key among them, those at as_of itself included whatever
\* their tie-breaker.
C15_LatestGreatestKey ==
  IsQuery("Latest") =>
    LET upTo == {i \in 1..Len(LastBucket) : LastBucket[i].key.ts <= last.as_of}
    IN  /\ Len(last.result) <= 1
        /\ upTo = {} => last.result = <<>>
        /\ upTo # {} =>
             \E i \in upTo :
               /\ \A j \in upTo : KeyLe(LastBucket[j].key, LastBucket[i].key)
               /\ last.result = <<LastBucket[i].val>>

C15_Witness ==
  /\ IsQuery("Latest")
  /\ Len(last.result) = 1
  /\ \E i, j \in 1..Len(LastBucket) :
       /\ LastBucket[i].key.ts = last.as_of
       /\ LastBucket[j].key.ts = last.as_of
       /\ LastBucket[j].key.tie > 0
       /\ last.result = <<LastBucket[j].val>>
       /\ i # j

\* C16: a Periods(n) query at as_of returns min(n, k) values, k counting the
\* entries below the max-tie key of as_of (so those at as_of too): the entries
\* with the greatest keys, in ascending key order.
C16_PeriodsGreatestKeys ==
  IsQuery("Period") =>
    LET below == SelectSeq(LastBucket,
                   LAMBDA e : \/ e.key.ts < last.as_of
                              \/ e.key.ts = last.as_of /\ e.key.tie < MaxTie)
        k == Len(below)
        m == Min(last.data_type.periods, k)
    IN  /\ Len(last.result) = m
        /\ \A i \in 1..m : last.result[i] = below[k - m + i].val

C16_Witness ==
  /\ IsQuery("Period")
  /\ Len(last.result) = 2
  /\ Len(EntriesBetween(LastBucket, 0, last.as_of)) = 3
  /\ \E i \in 1..Len(LastBucket) :
       LastBucket[i].key.ts = last.as_of /\ last.result[2] = LastBucket[i].val

\* the catalog declared in another order: every node keeps its id and sources
Redeclared(perm) == [i \in 1..Len(catalog) |-> catalog[perm[i]]]

\* what a pipeline built from the declaration cat emits, run on its own
EmittedBy(cat) ==
  SequentialEvents(cat, toposort(Len(cat), EdgesToAdd(cat, 1)).order, 1, store0)

\* C17: the set a calculate() emits is the set that every other declaration
\* order of the same nodes emits on the same store contents.
C17_DeclarationOrderIrrelevant ==
  pc = "returned" =>
    \A perm \in Perms(Len(catalog)) :
      /\ ~ UnwrapPanics(Redeclared(perm))
      /\ toposort(Len(catalog), EdgesToAdd(Redeclared(perm), 1)).ok
      /\ Range(pipeline_result) = EmittedBy(Redeclared(perm))

\* the store holds an entry of this event: its bucket, its time, its value
Stored(event) ==
  \E x \in 1..Len(store[<<event.instrument, event.id>>]) :
    /\ store[<<event.instrument, event.id>>][x].key.ts = event.event_time
    /\ store[<<event.instrument, event.id>>][x].val = event.value

WritesOfCall == StoreSize(store) - StoreSize(store0)

\* C18: every event of the batch carries the instrument and event time of the
\* call and is in the store before it is in the batch; the writes of a call
\* that has returned are as many as the events of its batch.
C18_BatchEventsStored ==
  /\ \A k \in 1..Len(pipeline_result) :
       /\ pipeline_result[k].instrument = Instr
       /\ pipeline_result[k].event_time = EventTime
       /\ Stored(pipeline_result[k])
  /\ \A i \in TaskIds : tasks[i].pc = "push" => Stored(TaskEvent(i))
  /\ Cardinality({i \in TaskIds : Pushed(i)}) = Len(pipeline_result)
  /\ Len(pipeline_result) <= WritesOfCall
  /\ pc = "returned" => WritesOfCall = Len(pipeline_result)

C18_Witness ==
  /\ pc = "returned"
  /\ Len(pipeline_result) = 2
  /\ WritesOfCall = 2
  /\ \E i \in TaskIds : Failed(i)

\* the last observation evaluated an SMA node; the values its input holds
IsSma == last.op = "sma"

QueriedInput == IF last.feature_id = last.id THEN last.result ELSE <<>>

\* C19: calculate of an SMA node never fails and returns exactly one output,
\* under the configured output id; over an input of zero values the output
\* is NaN.
C19_SmaAlwaysOneOutput ==
  IsSma =>
    /\ last.sma.ok
    /\ DOMAIN last.sma.outputs = {"sma_out"}
    /\ QueriedInput = <<>> => last.sma.outputs["sma_out"] = NaN

C19_Witness ==
  /\ IsSma
  /\ StoreSize(store) > 0
  /\ last.feature_id = last.id
  /\ last.result = <<>>
  /\ last.sma.ok
  /\ last.sma.outputs["sma_out"].nan

\* C20: over a non-empty input the SMA node emits the arithmetic mean of the
\* queried values, their sum divided by their count.
C20_SmaIsArithmeticMean ==
  (IsSma /\ QueriedInput # <<>>) =>
    /\ last.sma.ok
    /\ SameValue(last.sma.outputs["sma_out"],
                 Quot(SumSeq(QueriedInput), Len(QueriedInput)))

IncomingEdges(n) == {e \in 1..Len(graph) : graph[e][2] = n}

Enqueued(n) == n \in Range(queue) \/ TasksOf(n) # {}

InOrAfterCalculate == InCalculate \/ pc = "returned"

\* C24: the sentinel None is in the queue only when every node of the DAG has
\* been enqueued, no node follows a sentinel in the queue, and once the
\* dispatcher has taken a sentinel only sentinels are left, which nobody takes.
C24_SentinelAfterAllNodes ==
  InOrAfterCalculate =>
    /\ (None \in Range(queue) \/ pc \in {"join", "returned"}) =>
          \A n \in Nodes : Enqueued(n)
    /\ \A q, r \in 1..Len(queue) : (q < r /\ queue[q] = None) => queue[r] = None
    /\ pc \in {"join", "returned"} =>
          /\ \A q \in 1..Len(queue) : queue[q] = None
          /\ Len(tasks) = Len(catalog)

C24_Witness ==
  /\ pc = "returned"
  /\ Len(tasks) = 3
  /\ Len(queue) >= 1
  /\ \A q \in 1..Len(queue) : queue[q] = None

\* the incoming edges of n whose source satisfies P of its closures
EdgesFrom(n, P(_)) == Cardinality({e \in IncomingEdges(n) : P(graph[e][1])})

NotDecrementing(m) == \A i \in TasksOf(m) : tasks[i].pc \notin {"neighbors", "done"}
NotThroughDecrementing(m) == \A i \in TasksOf(m) : tasks[i].pc # "done"

\* C25: during an invocation the in-degree counter of a node is the number of
\* its incoming edges minus the decrements made so far, which lies between the
\* edges whose source has not begun and those whose source has not ended its
\* decrement step; it is never negative, and a node is in the queue or
\* dispatched, once, exactly when its counter is zero.
C25_CounterTracksPendingEdges ==
  InOrAfterCalculate =>
    \A n \in Nodes :
      /\ in_degrees[n] = Cardinality(IncomingEdges(n)) - DecrementsUpTo(Len(tasks), n)
      /\ EdgesFrom(n, NotDecrementing) <= in_degrees[n]
      /\ in_degrees[n] <= EdgesFrom(n, NotThroughDecrementing)
      /\ in_degrees[n] >= 0
      /\ Enqueued(n) <=> in_degrees[n] = 0
      /\ Cardinality({q \in 1..Len(queue) : queue[q] = n}) + Cardinality(TasksOf(n)) <= 1

C25_Witness ==
  /\ pc = "dispatch"
  /\ \E n \in Nodes :
       /\ Cardinality(IncomingEdges(n)) = 2
       /\ in_degrees[n] = 1
       /\ ~ Enqueued(n)
       /\ \E i \in TaskIds : tasks[i].pc = "neighbors" /\ DecrementsBy(i, n) = 1

\* new is old with x put at the back: earlier entries keep their places
AppendedAtBack(old, new, x) ==
  /\ Len(new) = Len(old) + 1
  /\ new[Len(new)] = x
  /\ \A k \in 1..Len(old) : new[k] = old[k]

\* the map holds one more entry, x, at the back of the buffer of x's own
\* instrument, and every other buffer as before
OnlyOwnBufferGrown(old, new, x) ==
  /\ DOMAIN new = DOMAIN old \cup {x.instrument}
  /\ AppendedAtBack(OrDefault(old, x.instrument), new[x.instrument], x)
  /\ \A j \in DOMAIN old \ {x.instrument} : new[j] = old[j]

\* C29: handle_tick_update puts the tick at the back of the quote buffer of
\* the tick's instrument, made if absent, keeps the earlier entries in order
\* and leaves every other quote buffer and all trade and agg-trade buffers as
\* they were; handle_trade_update and handle_agg_trade_update do so for the
\* trades and the agg_trades map.
C29_HandlersAppendToOwnBuffer ==
  [][/\ market'.call.op = "tick" =>
          /\ OnlyOwnBufferGrown(market.quotes, market'.quotes, market'.call.event)
          /\ market'.trades = market.trades
          /\ market'.agg_trades = market.agg_trades
     /\ market'.call.op = "trade" =>
          /\ OnlyOwnBufferGrown(market.trades, market'.trades, market'.call.event)
          /\ market'.quotes = market.quotes
          /\ market'.agg_trades = market.agg_trades
     /\ market'.call.op = "agg_trade" =>
          /\ OnlyOwnBufferGrown(market.agg_trades, market'.agg_trades, market'.call.event)
          /\ market'.quotes = market.quotes
          /\ market'.trades = market.trades]_market

C29_Witness ==
  /\ market # <<>>
  /\ market.call.op = "tick"
  /\ Len(OrDefault(market.quotes, "I1")) = 2
  /\ market.quotes["I1"][2] = market.call.event
  /\ market.quotes["I1"][1] # market.call.event
  /\ DOMAIN market.trades = {"I1"}

\* handlers started and not finished, and the attempt start_handler is making
RunningHandlers == {h \in WsHandlers : ws.handlers[h].pc # "done"}
Connecting == IF ws.mgr = "connecting" THEN 1 ELSE 0

\* C23: a permit is acquired before every connection attempt, so the handlers
\* started and not yet finished, the attempt under way included, are never
\* more than the connections limit.
C23_HandlersWithinLimit ==
  /\ Cardinality(RunningHandlers) + Connecting <= ws.limit
  /\ Len(ws.handlers) + Connecting <= ws.attempts
  /\ ws.permits >= 0

C23_Witness ==
  /\ ws.limit = 1
  /\ Len(ws.handlers) = 2
  /\ ws.handlers[1].pc = "done"
  /\ ws.handlers[2].pc = "loop"
  /\ ws.permits = 0

PermitsConserved == ws.permits + Cardinality(RunningHandlers) + Connecting = ws.limit

\* run is selecting, may still attempt, and a connection slot is free
ReplacementDue ==
  /\ ws.mgr = "select"
  /\ ws.attempts < MaxAttempts
  /\ Cardinality(RunningHandlers) < ws.limit

\* C26: the available permits and the permits held (by running handlers and
\* by an attempt under way) always add up to the limit: a permit comes back
\* when a handler's run ends, with or without error, and when connect fails;
\* so whenever a slot is free the manager goes on to attempt a connection.
C26_PermitsConserved ==
  /\ []PermitsConserved
  /\ ReplacementDue ~> (ws.mgr \in {"connecting", "dropped"})

C26_Witness ==
  /\ ws.limit = 1
  /\ ws.attempts = 2
  /\ ws.mgr = "connecting"
  /\ Len(ws.handlers) = 1
  /\ ws.handlers[1].result = "err"
  /\ ws.permits = 0

\* the messages a handler has dealt with to the end: all it received, but for
\* the last one of a finished handler (the error or end of the stream, or the
\* message whose handling failed)
Completed(handler) ==
  IF handler.pc = "done" /\ handler.received # <<>>
  THEN SubSeq(handler.received, 1, Len(handler.received) - 1)
  ELSE handler.received

OfKind(msgs, kind) == SelectSeq(msgs, LAMBDA m : m.kind = kind)

\* what handler h put into the channel, in channel order
ChannelFrom(h) ==
  LET mine == SelectSeq(ws.channel, LAMBDA c : c.from = h)
  IN  [k \in 1..Len(mine) |-> mine[k].msg]

HandlerLaw(h) ==
  LET handler == ws.handlers[h]
      pings == OfKind(Completed(handler), "Ping")
  IN  /\ ChannelFrom(h) = OfKind(Completed(handler), "Text")
      /\ handler.forwarded = ChannelFrom(h)
      /\ OfKind(handler.sent, "Pong") = [k \in 1..Len(pings) |-> PongMsg(pings[k].payload)]
      /\ \A k \in 1..Len(Completed(handler)) :
           Completed(handler)[k] \notin {StreamErr, StreamEnd}
      /\ (handler.result = "err") =>
           /\ handler.pc = "done"
           /\ \/ handler.received = <<>>
              \/ handler.received[Len(handler.received)] = StreamErr
              \/ handler.received[Len(handler.received)].kind = "Ping"
              \/ /\ handler.received[Len(handler.received)].kind = "Text"
                 /\ ws.mgr = "dropped"

AllHandlersLawful == \A h \in WsHandlers : HandlerLaw(h)

\* C27: a handler forwards the Text messages it receives, and only those, to
\* the channel in the order received, answers each Ping with a Pong of the
\* same payload on the stream, does nothing for other kinds, and after the
\* first stream or channel error does nothing more.
C27_HandlerForwardsTextAnswersPing ==
  [][/\ AllHandlersLawful'
     /\ \A h \in WsHandlers :
          ws.handlers[h].pc = "done" => ws'.handlers[h] = ws.handlers[h]]_ws

C27_Witness ==
  \E h \in WsHandlers :
    /\ ws.handlers[h].received = <<PingMsg(1), TextMsg(2), StreamErr>>
    /\ ws.handlers[h].sent = <<SubscriptionMsg, PongMsg(1)>>
    /\ ChannelFrom(h) = <<TextMsg(2)>>
    /\ ws.handlers[h].pc = "done"

\* C28: a handler has sent its subscription on the stream before it receives
\* or forwards anything, and a handler whose subscription could not be sent
\* has ended with an error and has received and forwarded nothing.
C28_SubscribeFirst ==
  \A h \in WsHandlers :
    /\ (ws.handlers[h].pc = "loop" \/ ws.handlers[h].received # <<>> \/ ChannelFrom(h) # <<>>) =>
          /\ ws.handlers[h].sent # <<>>
          /\ ws.handlers[h].sent[1] = SubscriptionMsg
    /\ (ws.handlers[h].pc = "done" /\ ws.handlers[h].sent = <<>>) =>
          /\ ws.handlers[h].result = "err"
          /\ ws.handlers[h].received = <<>>
          /\ ChannelFrom(h) = <<>>

C28_Witness ==
  /\ Len(ws.handlers) = 2
  /\ ws.handlers[1].pc = "done"
  /\ ws.handlers[1].sent = <<>>
  /\ ws.handlers[2].sent = <<SubscriptionMsg>>
  /\ ChannelFrom(2) # <<>>

\* the feature buckets of an instrument in the shared store are those of the
\* store the call for that instrument would have left running on its own
OwnBucketsAsAlone(ins) ==
  \A id \in FeatureIds : store[<<ins, id>>] = invs[ins].own[<<ins, id>>]

\* C22: of two calculate() calls running at once for different instruments on
\* one pipeline and store, each reads at every step what it would read were
\* the other not running, so it emits the events and leaves its instrument's
\* buckets as it does when the two calls run one after the other.
C22_ConcurrentCallsIsolated ==
  \A ins \in Instruments :
    /\ invs[ins].same_reads
    /\ OwnBucketsAsAlone(ins)
    /\ \A k \in 1..Len(invs[ins].pipeline_result) :
         /\ invs[ins].pipeline_result[k].instrument = ins
         /\ \E x \in 1..Len(store[<<ins, invs[ins].pipeline_result[k].id>>]) :
              store[<<ins, invs[ins].pipeline_result[k].id>>][x].val
                = invs[ins].pipeline_result[k].value

C22_Witness ==
  /\ invs # <<>>
  /\ invs["I1"].pc = "join"
  /\ Len(invs["I1"].pipeline_result) = 2
  /\ invs["I2"].pc = "dispatch"
  /\ Len(invs["I2"].pipeline_result) = 1
  /\ \E i \in 1..Len(invs["I2"].tasks) : invs["I2"].tasks[i].pc = "save"
  /\ invs["I1"].pipeline_result[2].value # invs["I2"].pipeline_result[1].value

====
